---------------------------- MODULE Spec2Model ----------------------------
(***************************************************************************)
(* A model of examples/hhl.py: the HHL circuit synthesis (Hamiltonian      *)
(* simulation gate, phase estimation, eigenvalue rotation, amplitude       *)
(* amplification) and the two sampling modes with their post-processing.   *)
(*                                                                         *)
(* The module holds one set of variables and several specifications, one   *)
(* per part of the program:                                                *)
(*   SpecB   simulate_with_amplification (Mode B)                          *)
(*   SpecA   __init__, simulate_without_amplification (Mode A) and         *)
(*           print_results, as main runs them                              *)
(*   SpecER  EigenRotation._decompose_ and _ancilla_rotation               *)
(*   SpecHS  HamiltonianSimulation and its exponentiations                 *)
(*   SpecC   hhl_circuit, diffusion_operator, amplitude_amplification,     *)
(*           measure_circuit, and the inversion of the circuits            *)
(***************************************************************************)
EXTENDS Integers, Sequences, FiniteSets, TLC

\* ------------------------------------------------------------------------
\* Bounds of the model
\* ------------------------------------------------------------------------

\* largest total_estimates handed to simulate_with_amplification
MaxEstimates == 2

\* largest number of amplification rounds j that is drawn (the code draws j
\* from 0..M-1, M up to 512)
MaxJ == 2

\* largest total_runs handed to simulate_without_amplification
MaxRuns == 2

\* largest register_size handed to HHLAlgorithm
MaxRegisterSize == 2

\* EigenRotation: the most register qubits (num_qubits - 1)
MaxEigenQubits == 3

\* EigenRotation: C is counted in units of 1/CUnits of the guideline value
\* 2*pi/(t*N), so C*N*t/(2*pi) = C/CUnits; C ranges over -MaxC..MaxC
CUnits == 2

MaxC == 5

\* HamiltonianSimulation: the entries of A range over 0..MaxEntry, t (counted in
\* units of pi) over 1..MaxT; at most MaxGates operators are built, with the
\* exponents 2^i, i < MaxKick, of phase kickback and -1 of inversion
MaxEntry == 2

MaxT == 2

MaxGates == 3

MaxKick == 2

\* largest num_iterations handed to amplitude_amplification
MaxIterations == 2

\* ------------------------------------------------------------------------
\* Program constants
\* ------------------------------------------------------------------------

\* for l in range(1, 10): l = 1..9
NumRounds == 9

\* for _ in range(2)
NumTrials == 2

\* the three entries of params: X, Y, Z
NumParams == 3

VARIABLES
    \* ---- simulate_with_amplification
    pc,               \* position in simulate_with_amplification
    total_estimates,  \* the argument
    param,            \* index of the current entry of params, 1..3 (4: loop over)
    l,                \* the round, 1..9
    trial,            \* the trial within the round, 1..2
    repetitions,      \* remaining budget
    num_runs,         \* cumulative shots of the current observable
    found,            \* rows collected in results_for_param
    results,          \* per finished observable: rows of the concatenated array
    runs,             \* per finished observable: num_runs
    calls,            \* history: simulator.run calls of the current observable
    issued,           \* history: sum of the shot counts passed to those calls
    issuedOf,         \* history: per finished observable, that sum
    \* ---- the HHLAlgorithm object
    register_size,    \* self.register_size
    input_prep_gates, \* self.input_prep_gates
    register,         \* self.register: the LineQubit indices
    ancilla,          \* self.ancilla
    memory,           \* self.memory
    \* ---- simulate_without_amplification, print_results
    pcA,              \* position in the run of Mode A
    total_runs,       \* the argument of simulate_without_amplification
    engineCalls,      \* history: calls of simulator.run_sweep
    resultsA,         \* per observable: [n: surviving rows, ones: rows with bit 1]
    num_runsA,        \* the num_runs argument of print_results
    idx,              \* print_results: position of the zip loop
    expectations,     \* print_results: the expectation printed per observable
    success_probability, \* print_results: the list
    raised,           \* the exception that ended the run ("none": none)
    retA,             \* the value print_results returned
    \* ---- EigenRotation
    pcE,              \* position in _decompose_
    num_qubits,       \* self._num_qubits: the register qubits and the ancilla
    C,                \* self.C, in units of 2*pi/(t*N)/CUnits
    k,                \* the loop variable of _decompose_
    ops,              \* the operations _decompose_ has yielded
    raisedE,          \* the exception that ended _decompose_ ("none": none)
    \* ---- HamiltonianSimulation
    A,                \* the matrix handed to HamiltonianSimulation
    t,                \* the evolution time, in units of pi
    gates,            \* the HamiltonianSimulation objects built, in order
    eigh_calls,       \* history: calls of np.linalg.eigh
    \* ---- the circuits
    pcC,              \* which circuit c is
    c,                \* the circuit built last: its operations in order
    num_iterations    \* the argument of amplitude_amplification

varsB == <<pc, total_estimates, param, l, trial, repetitions, num_runs, found,
           results, runs, calls, issued, issuedOf>>

varsO == <<register_size, input_prep_gates, register, ancilla, memory>>

varsA == <<pcA, total_runs, engineCalls, resultsA, num_runsA, idx, expectations,
           success_probability, raised, retA>>

varsE == <<pcE, num_qubits, C, k, ops, raisedE>>

varsH == <<A, t, gates, eigh_calls>>

varsC == <<pcC, c, num_iterations>>

vars == <<varsB, varsO, varsA, varsE, varsH, varsC>>

Min(a, b) == IF a < b THEN a ELSE b

RECURSIVE Pow2(_)
Pow2(n) == IF n <= 0 THEN 1 ELSE 2 * Pow2(n - 1)

\* ------------------------------------------------------------------------
\* simulate_with_amplification
\* ------------------------------------------------------------------------

\* random.randint(0, M - 1): both ends included; draws above MaxJ are cut off
RandInt(a, b) == a..Min(b, MaxJ)

\* simulator.run(circuit(j), resolver, reps): the number of shots, out of reps,
\* whose ancilla measured 1.  Any count is possible for any j.
RunSurvivors(j, reps) == 0..reps

\* num_runs += repetitions
AddRunsEarly(n, reps, s) == n + reps - s
AddRuns(n, reps, s) == n + reps

\* repetitions -= (result.measurements['a'] == 1).sum()
SubtractFoundNone(reps, s) == reps
SubtractFound(reps, s) == reps - s

\* if repetitions <= 0: break  (both the inner and the outer test)
BudgetSpentStrict(reps) == reps < 0
BudgetSpent(reps) == reps <= 0

\* the loop headers: no (l, trial) is left after this one
LastTrial(ll, tt) == ll = NumRounds /\ tt = NumTrials

\* The state on entry to the first pass of the inner loop: results = [], runs = [],
\* the first entry of params, repetitions = total_estimates, num_runs = 0, l = 1.
InitB ==
    /\ pc = "loop"
    /\ total_estimates \in 0..MaxEstimates
    /\ param = 1
    /\ l = 1
    /\ trial = 1
    /\ repetitions = total_estimates
    /\ num_runs = 0
    /\ found = 0
    /\ results = <<>>
    /\ runs = <<>>
    /\ calls = 0
    /\ issued = 0
    /\ issuedOf = <<>>

\* One pass of the inner loop body: draw j, run, account, test the budget.
Run ==
    /\ pc = "loop"
    /\ \E s \in UNION {RunSurvivors(j, repetitions) : j \in RandInt(0, Pow2(l) - 1)} :
          /\ calls' = calls + 1
          /\ issued' = issued + repetitions
          /\ num_runs' = AddRuns(num_runs, repetitions, s)
          /\ found' = found + s
          /\ repetitions' = SubtractFound(repetitions, s)
          /\ IF BudgetSpent(repetitions') \/ LastTrial(l, trial)
             THEN /\ pc' = "append"
                  /\ UNCHANGED <<l, trial>>
             ELSE /\ pc' = "loop"
                  /\ IF trial < NumTrials
                     THEN /\ trial' = trial + 1
                          /\ l' = l
                     ELSE /\ trial' = 1
                          /\ l' = l + 1
    /\ UNCHANGED <<total_estimates, param, results, runs, issuedOf>>

\* results.append(np.concatenate(results_for_param, axis=0)); runs.append(num_runs);
\* then the header of `for param in params`: either the next observable starts
\* (repetitions = total_estimates, num_runs = 0, l = 1, first trial) or the loop
\* is over and `return results, runs` is reached, where the locals go out of
\* scope (0 here).
AppendResult ==
    /\ pc = "append"
    /\ results' = Append(results, found)
    /\ runs' = Append(runs, num_runs)
    /\ issuedOf' = Append(issuedOf, issued)
    /\ param' = param + 1
    /\ IF param < NumParams
       THEN /\ pc' = "loop"
            /\ found' = 0
            /\ repetitions' = total_estimates
            /\ num_runs' = 0
            /\ l' = 1
            /\ trial' = 1
            /\ calls' = 0
            /\ issued' = 0
       ELSE /\ pc' = "returned"
            /\ found' = 0
            /\ repetitions' = 0
            /\ num_runs' = 0
            /\ l' = 0
            /\ trial' = 0
            /\ calls' = 0
            /\ issued' = 0
    /\ UNCHANGED total_estimates

\* ------------------------------------------------------------------------
\* Mode A as main runs it: HHLAlgorithm(...), simulate_without_amplification,
\* print_results
\* ------------------------------------------------------------------------

NaN == [nan |-> TRUE, num |-> 0, den |-> 1]
Ratio(a, b) == [nan |-> FALSE, num |-> a, den |-> b]

\* np.mean over the rows of an array with n rows, `ones` of them 1: nan for n = 0
\* (numpy warns and returns nan, it does not raise)
NpMean(ones, n) == IF n = 0 THEN NaN ELSE Ratio(ones, n)

\* expectation = 1 - 2 * np.mean(result)
Expectation(m) == IF m.nan THEN NaN ELSE Ratio(m.den - 2 * m.num, m.den)

\* num_estimates / runs on Python ints: ZeroDivisionError for runs = 0
DivRaises(a, b) == b = 0
TrueDiv(a, b) == Ratio(a, b)

\* np.mean(success_probability) over fractions with one denominator each
RECURSIVE SumNum(_, _)
SumNum(sp, d) == IF sp = <<>> THEN 0
                 ELSE Head(sp).num * (d \div Head(sp).den) + SumNum(Tail(sp), d)

RECURSIVE ProdDen(_)
ProdDen(sp) == IF sp = <<>> THEN 1 ELSE Head(sp).den * ProdDen(Tail(sp))

MeanOf(sp) == IF sp = <<>> THEN NaN
              ELSE Ratio(SumNum(sp, ProdDen(sp)), Len(sp) * ProdDen(sp))

\* [cirq.LineQubit(i + 1) for i in range(register_size)]
RegisterQubits(n) == [i \in 1..n |-> i]

\* the rows an execution of `reps` shots can leave for one observable
Outcomes(reps) == {[n |-> n, ones |-> o] : n \in 0..reps, o \in 0..reps} \cap
                  {r \in [n : 0..reps, ones : 0..reps] : r.ones <= r.n}

\* The arguments main passes: a register size and a number of runs.
InitA ==
    /\ pcA = "new"
    /\ register_size \in 0..MaxRegisterSize
    /\ input_prep_gates = <<>>
    /\ total_runs \in 0..MaxRuns
    /\ register = <<>>
    /\ ancilla = 0
    /\ memory = 0
    /\ engineCalls = 0
    /\ resultsA = <<>>
    /\ num_runsA = <<>>
    /\ idx = 0
    /\ expectations = <<>>
    /\ success_probability = <<>>
    /\ raised = "none"
    /\ retA = NaN

\* HHLAlgorithm.__init__: stores its arguments and names the qubits; it tests
\* none of them.
New ==
    /\ pcA = "new"
    /\ pcA' = "ready"
    /\ ancilla' = 0
    /\ register' = RegisterQubits(register_size)
    /\ memory' = register_size + 1
    /\ UNCHANGED <<register_size, input_prep_gates, total_runs, engineCalls,
                   resultsA, num_runsA, idx, expectations, success_probability,
                   raised, retA>>

\* simulate_without_amplification(total_runs): one run_sweep over the three
\* parameter sets, each with total_runs shots; the rows with ancilla = 1 are
\* kept.  main then calls print_results(results, [total_runs] * 3).
SimulateWithoutAmplification ==
    /\ pcA = "ready"
    /\ engineCalls' = engineCalls + 1
    /\ resultsA' \in [1..NumParams -> Outcomes(total_runs)]
    /\ num_runsA' = [i \in 1..NumParams |-> total_runs]
    /\ idx' = 1
    /\ expectations' = <<>>
    /\ success_probability' = <<>>
    /\ pcA' = "print"
    /\ UNCHANGED <<varsO, total_runs, raised, retA>>

\* print_results: one pass of the loop over zip(('X', 'Y', 'Z'), results, num_runs)
PrintResultsStep ==
    /\ pcA = "print"
    /\ idx <= NumParams
    /\ LET result == resultsA[idx]
           runsI == num_runsA[idx]
           expectation == Expectation(NpMean(result.ones, result.n))
           num_estimates == result.n
       IN  /\ expectations' = Append(expectations, expectation)
           /\ IF DivRaises(num_estimates, runsI)
              THEN /\ raised' = "ZeroDivisionError"
                   /\ pcA' = "raised"
                   /\ UNCHANGED <<idx, success_probability>>
              ELSE /\ success_probability' =
                        Append(success_probability, TrueDiv(num_estimates, runsI))
                   /\ idx' = idx + 1
                   /\ UNCHANGED <<pcA, raised>>
    /\ UNCHANGED <<varsO, total_runs, engineCalls, resultsA, num_runsA, retA>>

\* print_results: return np.mean(success_probability)
PrintResultsReturn ==
    /\ pcA = "print"
    /\ idx > NumParams
    /\ retA' = MeanOf(success_probability)
    /\ pcA' = "done"
    /\ UNCHANGED <<varsO, total_runs, engineCalls, resultsA, num_runsA, idx,
                   expectations, success_probability, raised>>

\* ------------------------------------------------------------------------
\* EigenRotation
\* ------------------------------------------------------------------------

Abs(a) == IF a < 0 THEN -a ELSE a

\* self.N = 2 ** (num_qubits - 1)
EigenN(nq) == Pow2(nq - 1)

\* Python's a ^ b on ints of either sign (two's complement without width)
RECURSIVE XorUnsigned(_, _)
XorUnsigned(a, b) ==
    IF a = b \/ a < 0 \/ b < 0 THEN 0
    ELSE (((a % 2) + (b % 2)) % 2) + 2 * XorUnsigned(a \div 2, b \div 2)

RECURSIVE Xor(_, _)
Xor(a, b) ==
    IF a = b THEN 0
    ELSE IF (a = 0 /\ b = -1) \/ (a = -1 /\ b = 0) THEN -1
    ELSE (((a % 2) + (b % 2)) % 2) + 2 * Xor(a \div 2, b \div 2)

\* if k == 0: k = self.N
KPrimeUnmapped(kk, nq) == kk
KPrime(kk, nq) == IF kk = 0 THEN EigenN(nq) ELSE kk

\* math.asin(self.C * self.N * self.t / (2 * math.pi * k)): the argument is
\* C / (CUnits * k); the division raises for k = 0 and math.asin raises outside
\* [-1, 1]
RotationRaises(kk, nq, cc) ==
    IF KPrime(kk, nq) = 0 THEN "ZeroDivisionError"
    ELSE IF Abs(cc) > CUnits * KPrime(kk, nq) THEN "ValueError"
    ELSE "none"

\* cirq.ry(theta), theta = 2 * asin(num / den): kept as that fraction
AncillaRotation(kk, nq, cc) == [num |-> cc, den |-> CUnits * KPrime(kk, nq)]

\* for q in qubits[-2::-1]: the X gates of one block.  pos is the place of q in
\* qubits (1: the first, most significant register qubit); the loop starts at
\* the last register qubit and uses up one bit of xor per qubit.
RECURSIVE PlaceXForward(_, _, _)
PlaceXForward(xor, pos, last) ==
    IF pos > last THEN <<>>
    ELSE (IF xor % 2 = 1 THEN <<[gate |-> "X", q |-> pos]>> ELSE <<>>)
         \o PlaceXForward(xor \div 2, pos + 1, last)

RECURSIVE PlaceXBackward(_, _)
PlaceXBackward(xor, pos) ==
    IF pos = 0 THEN <<>>
    ELSE (IF xor % 2 = 1 THEN <<[gate |-> "X", q |-> pos]>> ELSE <<>>)
         \o PlaceXBackward(xor \div 2, pos - 1)

PlaceXFromFirst(xor, nq) == PlaceXForward(xor, 1, nq - 1)
PlaceX(xor, nq) == PlaceXBackward(xor, nq - 1)

\* kGate = cirq.ControlledGate(kGate), once per register qubit; kGate(*qubits)
\* then takes the register qubits as controls and the last qubit as target
ControlledRotation(theta, nq) ==
    [gate |-> "CRy", theta |-> theta, controls |-> nq - 1, target |-> nq]

\* The register bits of the basis state with big-endian value v (place 1 is the
\* most significant bit)
BasisBits(v, n) == [pos \in 1..n |-> (v \div Pow2(n - pos)) % 2]

\* Running yielded operations on a register basis state: X flips its qubit, a
\* controlled rotation acts exactly when all its controls are 1.  The result
\* says, per rotation in order, whether it acted.
RECURSIVE Acted(_, _)
Acted(os, bits) ==
    IF os = <<>> THEN <<>>
    ELSE IF Head(os).gate = "X"
         THEN Acted(Tail(os), [bits EXCEPT ![Head(os).q] = 1 - @])
         ELSE <<\A pos \in 1..Head(os).controls : bits[pos] = 1>>
              \o Acted(Tail(os), bits)

IsRotation(o) == o.gate = "CRy"

Rotations(os) == SelectSeq(os, IsRotation)

\* The operations yielded up to and including the j-th `yield kGate(*qubits)`,
\* that is through block j - 1
RECURSIVE ThroughBlock(_, _)
ThroughBlock(os, j) ==
    IF j <= 0 \/ os = <<>> THEN <<>>
    ELSE <<Head(os)>>
         \o ThroughBlock(Tail(os), IF IsRotation(Head(os)) THEN j - 1 ELSE j)

\* How many times `yield cirq.X(q)` ran for the qubit at place pos
RECURSIVE Toggles(_, _)
Toggles(os, pos) ==
    IF os = <<>> THEN 0
    ELSE (IF Head(os).gate = "X" /\ Head(os).q = pos THEN 1 ELSE 0)
         + Toggles(Tail(os), pos)

\* The accumulated flip mask over the n register qubits: 1 where the qubit
\* has been toggled an odd number of times
FlipMask(os, n) == [pos \in 1..n |-> Toggles(os, pos) % 2]

\* The register basis state after the operations: X flips its qubit, a
\* controlled rotation leaves its controls as they are
RECURSIVE RegisterAfter(_, _)
RegisterAfter(os, bits) ==
    IF os = <<>> THEN bits
    ELSE IF Head(os).gate = "X"
         THEN RegisterAfter(Tail(os), [bits EXCEPT ![Head(os).q] = 1 - @])
         ELSE RegisterAfter(Tail(os), bits)

InitE ==
    /\ pcE = "gen"
    /\ num_qubits \in 1..(MaxEigenQubits + 1)
    /\ C \in (-MaxC)..MaxC
    /\ k = 0
    /\ ops = <<>>
    /\ raisedE = "none"

\* One pass of `for k in range(self.N)`: the rotation angle, the X gates, the
\* controlled rotation.
Block ==
    /\ pcE = "gen"
    /\ k < EigenN(num_qubits)
    /\ IF RotationRaises(k, num_qubits, C) # "none"
       THEN /\ raisedE' = RotationRaises(k, num_qubits, C)
            /\ pcE' = "raised"
            /\ UNCHANGED <<k, ops>>
       ELSE /\ ops' = ops \o PlaceX(Xor(k, k - 1), num_qubits)
                          \o <<ControlledRotation(
                                  AncillaRotation(k, num_qubits, C), num_qubits)>>
            /\ k' = k + 1
            /\ UNCHANGED <<pcE, raisedE>>
    /\ UNCHANGED <<num_qubits, C>>

\* range(self.N) is used up
EndDecompose ==
    /\ pcE = "gen"
    /\ k = EigenN(num_qubits)
    /\ pcE' = "done"
    /\ UNCHANGED <<num_qubits, C, k, ops, raisedE>>

\* ------------------------------------------------------------------------
\* HamiltonianSimulation
\* ------------------------------------------------------------------------

\* The Hermitian 2x2 matrices of the model: diag(a, b), and [[a, b], [b, a]]
\* with b > 0.
Matrices ==
    {[kind |-> "diag", a |-> a, b |-> b] : a \in 0..MaxEntry, b \in 0..MaxEntry}
    \cup {[kind |-> "sym", a |-> a, b |-> b] : a \in 0..MaxEntry, b \in 1..MaxEntry}

\* np.linalg.eigh(A): the eigenvalues in ascending order, each with its
\* eigenvector (named by the projector it spans)
Eigh(M) ==
    IF M.kind = "diag"
    THEN IF M.a <= M.b
         THEN <<[w |-> M.a, v |-> "e0"], [w |-> M.b, v |-> "e1"]>>
         ELSE <<[w |-> M.b, v |-> "e1"], [w |-> M.a, v |-> "e0"]>>
    ELSE <<[w |-> M.a - M.b, v |-> "minus"], [w |-> M.a + M.b, v |-> "plus"]>>

\* theta = w * t / math.pi; P = np.outer(v, np.conj(v))
EigenComponents(M, tt) ==
    [i \in 1..2 |-> [theta |-> Eigh(M)[i].w * tt, P |-> Eigh(M)[i].v]]

\* HamiltonianSimulation.__init__(A, t, exponent): the new object, and the calls
\* of np.linalg.eigh it made
HSInit(M, tt, e) ==
    [gate |-> [A |-> M, t |-> tt, exponent |-> e,
               eigen_components |-> EigenComponents(M, tt)],
     eigh |-> 1]

\* _with_exponent(exponent): return HamiltonianSimulation(self.A, self.t, exponent)
with_exponent_into_t(g, e) == HSInit(g.A, g.t * e, 1)
with_exponent(g, e) == HSInit(g.A, g.t, e)

\* the exponents the circuit raises a gate to: 2**i in PhaseKickback._decompose_,
\* -1 when the phase estimation is inverted
Exponents == {Pow2(i) : i \in 0..(MaxKick - 1)} \cup {-1}

InitH ==
    /\ A \in Matrices
    /\ t \in 1..MaxT
    /\ gates = <<>>
    /\ eigh_calls = 0

\* hs = HamiltonianSimulation(self.A, self.t)
NewHamiltonianSimulation ==
    /\ gates = <<>>
    /\ gates' = <<HSInit(A, t, 1).gate>>
    /\ eigh_calls' = eigh_calls + HSInit(A, t, 1).eigh
    /\ UNCHANGED <<A, t>>

\* U ** e on one of the objects: EigenGate.__pow__ multiplies the exponents and
\* calls _with_exponent
Power ==
    /\ gates # <<>>
    /\ Len(gates) < MaxGates
    /\ \E i \in 1..Len(gates) : \E e \in Exponents :
          LET made == with_exponent(gates[i], gates[i].exponent * e)
          IN  /\ gates' = Append(gates, made.gate)
              /\ eigh_calls' = eigh_calls + made.eigh
    /\ UNCHANGED <<A, t>>

\* ------------------------------------------------------------------------
\* The circuits.  A circuit is the sequence of its operations in the order of
\* cirq.Circuit.all_operations(); for register_size >= 1 that is the order in
\* which the code appends them.
\* ------------------------------------------------------------------------

NoGate == [A |-> [kind |-> "diag", a |-> 0, b |-> 0], t |-> 0, exponent |-> 0,
           eigen_components |-> <<>>]

NoArg == [n |-> 0, U |-> NoGate, rads |-> 0, C |-> 0, t |-> 0, key |-> ""]

\* gate(*qubits): an operation; exponent -1 marks the inverse
Op(g, arg, qs) == [gate |-> g, arg |-> arg, qubits |-> qs, exponent |-> 1]

\* cirq.X.on_each(qubits) and the like: one operation per qubit, in order
OnEach(g, qs) == [i \in 1..Len(qs) |-> Op(g, NoArg, <<qs[i]>>)]

\* the input preparations main uses: none, rx, rx then rz
PrepChoices ==
    { <<>>,
      <<[gate |-> "rx", rads |-> 1]>>,
      <<[gate |-> "rx", rads |-> 1], [gate |-> "rz", rads |-> 1]>> }

\* op ** -1
InverseOp(o) == [o EXCEPT !.exponent = -(o.exponent)]

\* circuit ** -1: the operations in reverse order, each inverted
RECURSIVE Inverse(_)
Inverse(os) ==
    IF os = <<>> THEN <<>>
    ELSE Inverse(Tail(os)) \o <<InverseOp(Head(os))>>

\* hhl_circuit()
HhlCircuitNoUncompute ==
    LET hs == HSInit(A, t, 1).gate
        pe == [NoArg EXCEPT !.n = register_size + 1, !.U = hs]
        er == [NoArg EXCEPT !.n = register_size + 1, !.C = C, !.t = t]
    IN  [i \in 1..Len(input_prep_gates) |->
            Op(input_prep_gates[i].gate,
               [NoArg EXCEPT !.rads = input_prep_gates[i].rads], <<memory>>)]
        \o << Op("PhaseEstimation", pe, register \o <<memory>>),
              Op("EigenRotation", er, register \o <<ancilla>>),
              Op("PhaseEstimation", pe, register \o <<memory>>) >>

HhlCircuit ==
    LET hs == HSInit(A, t, 1).gate
        pe == [NoArg EXCEPT !.n = register_size + 1, !.U = hs]
        er == [NoArg EXCEPT !.n = register_size + 1, !.C = C, !.t = t]
    IN  [i \in 1..Len(input_prep_gates) |->
            Op(input_prep_gates[i].gate,
               [NoArg EXCEPT !.rads = input_prep_gates[i].rads], <<memory>>)]
        \o << Op("PhaseEstimation", pe, register \o <<memory>>),
              Op("EigenRotation", er, register \o <<ancilla>>),
              InverseOp(Op("PhaseEstimation", pe, register \o <<memory>>)) >>

\* diffusion_operator()
DiffusionOperator ==
    LET qubits == <<ancilla>> \o register \o <<memory>>
    IN  OnEach("X", qubits)
        \o <<Op("ControlledZ", [NoArg EXCEPT !.n = register_size + 1], qubits)>>
        \o OnEach("X", qubits)

\* amplitude_amplification(num_iterations): the loop, pass by pass
RECURSIVE AmplitudeAmplificationDiffusionFirst(_)
AmplitudeAmplificationDiffusionFirst(n) ==
    IF n <= 0 THEN HhlCircuit
    ELSE AmplitudeAmplificationDiffusionFirst(n - 1)
         \o <<Op("Z", NoArg, <<ancilla>>)>>
         \o DiffusionOperator
         \o Inverse(HhlCircuit)
         \o HhlCircuit

RECURSIVE AmplitudeAmplification(_)
AmplitudeAmplification(n) ==
    IF n <= 0 THEN HhlCircuit
    ELSE AmplitudeAmplification(n - 1)
         \o <<Op("Z", NoArg, <<ancilla>>)>>
         \o Inverse(HhlCircuit)
         \o DiffusionOperator
         \o HhlCircuit

\* measure_circuit(circuit)
MeasureCircuit(os) ==
    os \o << Op("measure", [NoArg EXCEPT !.key = "a"], <<ancilla>>),
             Op("PhasedXPowGate", NoArg, <<memory>>),
             Op("measure", [NoArg EXCEPT !.key = "m"], <<memory>>) >>

\* PhaseEstimation._decompose_(qubits): H on the counting qubits, the phase
\* kickback, the inverse QFT without reversal on the counting qubits
DecomposePhaseEstimation(o) ==
    LET counting == SubSeq(o.qubits, 1, Len(o.qubits) - 1)
    IN  OnEach("H", counting)
        \o << Op("PhaseKickback", o.arg, o.qubits),
              InverseOp(Op("qft_without_reverse", NoArg, counting)) >>

\* the decomposition of an operation of the circuit: that of its gate, and for
\* an inverted gate the inverse of that
Decompose(o) ==
    IF o.exponent = 1 THEN DecomposePhaseEstimation(o)
    ELSE Inverse(DecomposePhaseEstimation(InverseOp(o)))

\* Cancelling neighbours g, g ** -1 from left to right: what is left of the
\* circuit
RECURSIVE CancelInto(_, _)
CancelInto(stack, os) ==
    IF os = <<>> THEN stack
    ELSE IF stack # <<>> /\ stack[Len(stack)] = InverseOp(Head(os))
         THEN CancelInto(SubSeq(stack, 1, Len(stack) - 1), Tail(os))
         ELSE CancelInto(Append(stack, Head(os)), Tail(os))

Cancel(os) == CancelInto(<<>>, os)

\* The object after HHLAlgorithm.__init__, and the arguments A and t
InitC ==
    /\ register_size \in 1..MaxRegisterSize
    /\ input_prep_gates \in PrepChoices
    /\ register = RegisterQubits(register_size)
    /\ ancilla = 0
    /\ memory = register_size + 1
    /\ pcC = "start"
    /\ c = <<>>
    /\ num_iterations = 0

\* c = hhl.hhl_circuit()
CallHhlCircuit ==
    /\ pcC = "start"
    /\ c' = HhlCircuit
    /\ pcC' = "base"
    /\ gates' = Append(gates, HSInit(A, t, 1).gate)
    /\ eigh_calls' = eigh_calls + HSInit(A, t, 1).eigh
    /\ UNCHANGED <<num_iterations, A, t>>

\* c = hhl.amplitude_amplification(n)
CallAmplitudeAmplification ==
    /\ pcC = "start"
    /\ \E n \in 0..MaxIterations :
          /\ c' = AmplitudeAmplification(n)
          /\ num_iterations' = n
    /\ pcC' = "amplified"
    /\ gates' = Append(gates, HSInit(A, t, 1).gate)
    /\ eigh_calls' = eigh_calls + HSInit(A, t, 1).eigh
    /\ UNCHANGED <<A, t>>

\* c = hhl.measure_circuit(c)
CallMeasureCircuit ==
    /\ pcC \in {"base", "amplified"}
    /\ c' = MeasureCircuit(c)
    /\ pcC' = "measured"
    /\ UNCHANGED <<num_iterations, varsH>>

\* c = c ** -1, on the base circuit and then on its inverse
Invert ==
    /\ pcC \in {"base", "inverse"}
    /\ c' = Inverse(c)
    /\ pcC' = (IF pcC = "base" THEN "inverse" ELSE "inverse2")
    /\ UNCHANGED <<num_iterations, varsH>>

\* c = c + c ** -1 on the base circuit
ComposeWithInverse ==
    /\ pcC = "base"
    /\ c' = c \o Inverse(c)
    /\ pcC' = "roundtrip"
    /\ UNCHANGED <<num_iterations, varsH>>

\* ------------------------------------------------------------------------
\* Specifications: each runs one part of the program and leaves the variables
\* of the other parts at rest
\* ------------------------------------------------------------------------

IdleO ==
    /\ register_size = 0
    /\ input_prep_gates = <<>>
    /\ register = <<>>
    /\ ancilla = 0
    /\ memory = 0

IdleC ==
    /\ pcC = "off"
    /\ c = <<>>
    /\ num_iterations = 0

IdleA ==
    /\ pcA = "off"
    /\ total_runs = 0
    /\ engineCalls = 0
    /\ resultsA = <<>>
    /\ num_runsA = <<>>
    /\ idx = 0
    /\ expectations = <<>>
    /\ success_probability = <<>>
    /\ raised = "none"
    /\ retA = NaN

IdleE ==
    /\ pcE = "off"
    /\ num_qubits = 0
    /\ C = 0
    /\ k = 0
    /\ ops = <<>>
    /\ raisedE = "none"

IdleH ==
    /\ A = [kind |-> "diag", a |-> 0, b |-> 0]
    /\ t = 0
    /\ gates = <<>>
    /\ eigh_calls = 0

IdleB ==
    /\ pc = "off"
    /\ total_estimates = 0
    /\ param = 0
    /\ l = 0
    /\ trial = 0
    /\ repetitions = 0
    /\ num_runs = 0
    /\ found = 0
    /\ results = <<>>
    /\ runs = <<>>
    /\ calls = 0
    /\ issued = 0
    /\ issuedOf = <<>>

NextB ==
    \/ Run /\ UNCHANGED <<varsO, varsA, varsE, varsH, varsC>>
    \/ AppendResult /\ UNCHANGED <<varsO, varsA, varsE, varsH, varsC>>

InitSpecB == InitB /\ IdleO /\ IdleA /\ IdleE /\ IdleH /\ IdleC

SpecB == InitSpecB /\ [][NextB]_vars

NextA ==
    \/ New /\ UNCHANGED <<varsB, varsE, varsH, varsC>>
    \/ SimulateWithoutAmplification /\ UNCHANGED <<varsB, varsE, varsH, varsC>>
    \/ PrintResultsStep /\ UNCHANGED <<varsB, varsE, varsH, varsC>>
    \/ PrintResultsReturn /\ UNCHANGED <<varsB, varsE, varsH, varsC>>

InitSpecA == InitA /\ IdleB /\ IdleE /\ IdleH /\ IdleC

SpecA == InitSpecA /\ [][NextA]_vars

NextER ==
    \/ Block /\ UNCHANGED <<varsO, varsA, varsB, varsH, varsC>>
    \/ EndDecompose /\ UNCHANGED <<varsO, varsA, varsB, varsH, varsC>>

InitSpecER == InitE /\ IdleO /\ IdleA /\ IdleB /\ IdleH /\ IdleC

SpecER == InitSpecER /\ [][NextER]_vars

NextHS ==
    \/ NewHamiltonianSimulation /\ UNCHANGED <<varsO, varsA, varsB, varsE, varsC>>
    \/ Power /\ UNCHANGED <<varsO, varsA, varsB, varsE, varsC>>

InitSpecHS == InitH /\ IdleO /\ IdleA /\ IdleB /\ IdleE /\ IdleC

SpecHS == InitSpecHS /\ [][NextHS]_vars

NextC ==
    \/ CallHhlCircuit /\ UNCHANGED <<varsO, varsA, varsB, varsE>>
    \/ CallAmplitudeAmplification /\ UNCHANGED <<varsO, varsA, varsB, varsE>>
    \/ CallMeasureCircuit /\ UNCHANGED <<varsO, varsA, varsB, varsE>>
    \/ Invert /\ UNCHANGED <<varsO, varsA, varsB, varsE>>
    \/ ComposeWithInverse /\ UNCHANGED <<varsO, varsA, varsB, varsE>>

InitSpecC == InitC /\ InitH /\ IdleA /\ IdleB /\ IdleE

SpecC == InitSpecC /\ [][NextC]_vars



\* ------------------------------------------------------------------------
\* Properties of simulate_with_amplification (checked under SpecB)
\* ------------------------------------------------------------------------

\* C1: in Mode B at most 2*9 = 18 simulator.run calls are issued per observable,
\* and the run count kept (and returned) for an observable equals the sum of the
\* shot counts passed to the calls issued for it.
Thm_C1_CallsAndRunCount ==
    /\ calls <= 18
    /\ calls <= NumTrials * NumRounds
    /\ num_runs = issued
    /\ Len(runs) = Len(issuedOf)
    /\ \A i \in 1..Len(runs) : runs[i] = issuedOf[i]

\* C1 witness: an observable that used all 18 calls and still found something.
Wit_C1_AllCallsUsed ==
    /\ pc = "append"
    /\ calls = 18
    /\ found > 0
    /\ repetitions > 0
    /\ num_runs > 18

\* C8: the calls of an observable are issued in the order l = 1..9, two trials
\* per l, each with the remaining budget as its shot count; a call that leaves
\* repetitions <= 0 is the last one of the observable, and otherwise the loop
\* ends after the second trial of l = 9; either way the accumulated rows and
\* the run count are appended to what is returned.
StepC8 ==
    /\ (calls' = calls + 1) =>
          /\ pc = "loop"
          /\ l \in 1..NumRounds
          /\ trial \in 1..NumTrials
          /\ calls = NumTrials * (l - 1) + (trial - 1)
          /\ issued' = issued + repetitions
          /\ (calls > 0 => repetitions > 0)
          /\ pc' = (IF repetitions' <= 0 \/ (l = 9 /\ trial = 2)
                    THEN "append" ELSE "loop")
          /\ (pc' = "loop" =>
                 <<l', trial'>> = (IF trial = 1 THEN <<l, 2>> ELSE <<l + 1, 1>>))
    /\ (pc = "append") =>
          /\ calls' # calls + 1
          /\ results' = Append(results, found)
          /\ runs' = Append(runs, num_runs)
          /\ pc' \in {"loop", "returned"}
    /\ (pc = "loop") => (pc' \in {"loop", "append"} /\ calls' = calls + 1)

Thm_C8_OrderAndStop == [][StepC8]_vars

\* C8 witness: the budget of 2 is spent by the first trial of l = 3, so the second
\* trial of l = 3 and the rounds 4..9 are not run.
Wit_C8_EarlyStop ==
    /\ pc = "append"
    /\ total_estimates = 2
    /\ repetitions = 0
    /\ l = 3
    /\ trial = 1
    /\ calls = 5

\* C10: per observable, 0 <= repetitions <= total_estimates, repetitions never
\* grows from call to call, found + repetitions = total_estimates; so an
\* observable returns at most total_estimates rows and a run count of at most
\* 18 * total_estimates.
InvC10 ==
    /\ (pc \in {"loop", "append"}) =>
          /\ 0 <= repetitions
          /\ repetitions <= total_estimates
          /\ found + repetitions = total_estimates
          /\ num_runs <= calls * total_estimates
    /\ \A i \in 1..Len(results) :
          /\ results[i] <= total_estimates
          /\ runs[i] <= 18 * total_estimates

StepC10 ==
    /\ InvC10
    /\ InvC10'
    /\ (pc = "loop" => repetitions' <= repetitions)
    /\ (pc = "append" /\ pc' = "loop" =>
           repetitions' = total_estimates /\ num_runs' = 0 /\ found' = 0)

Thm_C10_Budget == [][StepC10]_vars

\* C10 witness: the second observable, its budget of 2 half used.
Wit_C10_HalfUsed ==
    /\ pc = "loop"
    /\ param = 2
    /\ total_estimates = 2
    /\ found = 1
    /\ repetitions = 1
    /\ calls = 4
    /\ Len(results) = 1

\* ------------------------------------------------------------------------
\* Properties of EigenRotation (checked under SpecER)
\* ------------------------------------------------------------------------

\* C6: after each block k of EigenRotation._decompose_ exactly one controlled
\* rotation per finished block has been yielded; the rotation of block k has
\* the angle of _ancilla_rotation(k), is controlled by all n register qubits,
\* and, with the X gates yielded up to it, acts on exactly the register basis
\* state whose big-endian value is k.
Thm_C6_RotationActsOnK ==
    (pcE # "off") =>
       LET n == num_qubits - 1
           rots == Rotations(ops)
       IN  /\ Len(rots) = k
           /\ \A i \in 1..Len(rots) :
                 /\ rots[i].theta = AncillaRotation(i - 1, num_qubits, C)
                 /\ rots[i].controls = n
                 /\ rots[i].target = num_qubits
           /\ \A v \in 0..(EigenN(num_qubits) - 1) :
                 LET acted == Acted(ops, BasisBits(v, n))
                 IN  /\ Len(acted) = k
                     /\ \A i \in 1..Len(acted) : acted[i] <=> (v = i - 1)

\* C6 witness: the decomposition over a register of 3 qubits ran through all its
\* 8 blocks.
Wit_C6_AllBlocks ==
    /\ pcE = "done"
    /\ num_qubits = 4
    /\ k = 8
    /\ C = 2
    /\ Len(Rotations(ops)) = 8

\* C9 as stated: whatever C is, the angle of every block is computed without an
\* error, and the divisor is never zero.
Cex_C9_AnyCSucceeds ==
    /\ raisedE = "none"
    /\ \A kk \in 0..(EigenN(num_qubits) - 1) : KPrime(kk, num_qubits) # 0

\* C9 amended: the code does not test C, and the divisor k' (k, or N for k = 0)
\* is never zero; the angles of all blocks are computed without an error
\* exactly when |C| <= 2*pi/(t*N), and for a larger |C| math.asin raises
\* ValueError in the first block whose argument C*N*t/(2*pi*k') leaves [-1, 1]
\* (block 1, or block 0 when the argument exceeds 1 there already).
Thm_C9_RaisesAboveGuideline ==
    (pcE # "off") =>
       /\ \A kk \in 0..(EigenN(num_qubits) - 1) :
             /\ KPrime(kk, num_qubits) # 0
             /\ KPrime(kk, num_qubits) = (IF kk = 0 THEN EigenN(num_qubits) ELSE kk)
       /\ raisedE \in {"none", "ValueError"}
       /\ (Abs(C) <= CUnits => raisedE = "none")
       /\ (pcE = "done" => Abs(C) <= CUnits /\ raisedE = "none")
       /\ (raisedE = "ValueError" =>
              /\ pcE = "raised"
              /\ Abs(C) > CUnits
              /\ k \in {0, 1}
              /\ k = (IF Abs(C) > CUnits * EigenN(num_qubits) THEN 0 ELSE 1))
       /\ (pcE = "gen" /\ k >= 2 => Abs(C) <= CUnits)

\* C9 witness: C is one unit above the guideline and block 1 raised.
Wit_C9_RaisedAtBlockOne ==
    /\ pcE = "raised"
    /\ raisedE = "ValueError"
    /\ num_qubits = 2
    /\ C = CUnits + 1
    /\ k = 1
    /\ Len(ops) = 2

\* ------------------------------------------------------------------------
\* Properties of Mode A and print_results (checked under SpecA)
\* ------------------------------------------------------------------------

\* C4: in print_results an observable with no surviving shots gets an explicit
\* insufficient-samples value (nan) as its expectation, and no anomaly of one
\* observable, zero issued shots included, aborts the processing: no exception
\* is raised, every observable gets its estimate and the success probability
\* is returned.  (Stated for well-formed register sizes.)
Cex_C4_PrintResultsNeverAborts ==
    (register_size >= 1) =>
    /\ \A i \in 1..Len(expectations) :
          (resultsA[i].n = 0) => expectations[i].nan
    /\ raised = "none"
    /\ pcA # "raised"
    /\ (pcA = "done" =>
          Len(expectations) = NumParams /\ Len(success_probability) = NumParams)

\* C5: a register_size below 1 is reported as an error when the algorithm is
\* constructed, so no execution-engine call is ever made with such a size.
\* (Stated for runs that ask for at least one shot.)
Cex_C5_RegisterSizeChecked ==
    (engineCalls > 0 /\ total_runs >= 1) => register_size >= 1

\* ------------------------------------------------------------------------
\* Properties of HamiltonianSimulation (checked under SpecHS)
\* ------------------------------------------------------------------------

Thm_C3_AmplifiedSequence ==
    pcC = "amplified" =>
        LET L == Len(HhlCircuit)
            D == Len(DiffusionOperator)
            R == 1 + L + D + L
            at(r) == L + (r - 1) * R
        IN  /\ Len(c) = L + num_iterations * R
            /\ SubSeq(c, 1, L) = HhlCircuit
            /\ \A r \in 1..num_iterations :
                  /\ c[at(r) + 1] = Op("Z", NoArg, <<ancilla>>)
                  /\ \A i \in 1..L :
                        c[at(r) + 1 + i] = InverseOp(HhlCircuit[L + 1 - i])
                  /\ SubSeq(c, at(r) + L + 2, at(r) + L + 1 + D)
                        = DiffusionOperator
                  /\ SubSeq(c, at(r) + L + D + 2, at(r) + R) = HhlCircuit
            /\ (num_iterations = 0 => c = HhlCircuit)
            /\ \A i \in 1..Len(c) : c[i].gate # "measure"

\* C3 witness: two rounds of amplification on a two-qubit register with two
\* input preparation gates
Wit_C3_TwoRounds ==
    /\ pcC = "amplified"
    /\ num_iterations = 2
    /\ register_size = 2
    /\ Len(input_prep_gates) = 2
    /\ Len(c) > Len(HhlCircuit)

Thm_C11_FlipsCancel ==
    (pcE # "off" /\ num_qubits >= 2) =>
        LET n == num_qubits - 1
        IN  /\ \A i \in 1..Len(ops) :
                  ops[i].gate = "X" => ops[i].q \in 1..n
            /\ Toggles(ops, num_qubits) = 0
            /\ k >= 1 =>
                  \A pos \in 1..n : FlipMask(ThroughBlock(ops, 1), n)[pos] = 1
            /\ \A j \in 0..(k - 1) :
                  \A pos \in 1..n :
                     FlipMask(ThroughBlock(ops, j + 1), n)[pos]
                        = 1 - BasisBits(j, n)[pos]
            /\ pcE = "done" =>
                  /\ k = EigenN(num_qubits)
                  /\ \A pos \in 1..n :
                        /\ Toggles(ops, pos) % 2 = 0
                        /\ Toggles(ops, pos) >= 2
                        /\ FlipMask(ops, n)[pos] = 0
                  /\ \A v \in 0..(EigenN(num_qubits) - 1) :
                        RegisterAfter(ops, BasisBits(v, n)) = BasisBits(v, n)

\* C11 witness: the four blocks over a register of 2 qubits are complete; the
\* most significant register qubit was toggled twice, the least significant
\* one in every block
Wit_C11_TwoQubitRegister ==
    /\ pcE = "done"
    /\ num_qubits = 3
    /\ k = 4
    /\ Toggles(ops, 1) = 2
    /\ Toggles(ops, 2) = 4
    /\ FlipMask(ThroughBlock(ops, 1), 2) = <<1, 1>>
    /\ FlipMask(ops, 2) = <<0, 0>>

=============================================================================
